---------------------------- MODULE Spec2Model ----------------------------
(***************************************************************************)
(* Shortest-path algorithm suite and benchmark harness of DAAProject.      *)
(*                                                                         *)
(* A graph is a record                                                     *)
(*    n        number of nodes; node i is the i-th node inserted, 0..n-1   *)
(*    directed TRUE for nx.DiGraph, FALSE for nx.Graph                     *)
(*    adj      edge (u,v) |-> its data dict: <<>> when no 'weight' is set, *)
(*             <<w>> when weight w is set; an undirected edge is stored in *)
(*             both directions, as networkx does                           *)
(*    kind     what the node identifiers are: "int" (node i is the integer *)
(*             i, as nx.erdos_renyi_graph and load_graph_from_csv make     *)
(*             them), "str" (node i is the i-th letter "A", "B", ...) or   *)
(*             "coord" (node i is the coordinate tuple (i, 0)).            *)
(* Nodes and neighbours iterate in insertion order, which is index order   *)
(* for every graph the repository's generators build.                      *)
(***************************************************************************)
EXTENDS Integers, Sequences, FiniteSets, TLC

(* ------------------------------ bounds -------------------------------- *)
NumNodes == 3
MaxEdges == 3
MaxWeight == 2
MaxNeg == 1
MaxReading == 1
MaxAlgs == 2
MaxRecords == 2
MaxCalls == 2
MaxK == 3

(* float('inf'): larger than every finite cost of the model *)
Inf == 1000000

(* ------------------------- generic helpers ---------------------------- *)
Range(s) == {s[i] : i \in 1..Len(s)}

SetMin(S) == CHOOSE x \in S : \A y \in S : x <= y

RECURSIVE SortedSeq(_)
SortedSeq(S) ==
    IF S = {} THEN <<>>
    ELSE LET m == SetMin(S) IN <<m>> \o SortedSeq(S \ {m})

RECURSIVE SumSeq(_)
SumSeq(s) == IF s = <<>> THEN 0 ELSE Head(s) + SumSeq(Tail(s))

(* TLC evaluates the argument of an operator when it is first used. A     *)
(* loop tests Evaluated(st) before it hands its state on, so that the      *)
(* states of a run are computed one after the other and not all at the end *)
Evaluated(st) == st = st

(* a dict as a function on its keys: d[k] = v *)
DictSet(d, k, v) == (k :> v) @@ d

(* Python's + and < on numbers that may be float('inf') *)
PyAdd(a, b) == IF a = Inf THEN Inf ELSE a + b

(* Python's list comparison a < b: element by element, a proper prefix first *)
RECURSIVE ListLess(_, _)
ListLess(a, b) ==
    IF b = <<>> THEN FALSE
    ELSE IF a = <<>> THEN TRUE
    ELSE IF Head(a) # Head(b) THEN Head(a) < Head(b)
    ELSE ListLess(Tail(a), Tail(b))

(* ------------------------- the graph interface ------------------------ *)
Nodes(g) == 0..(g.n - 1)

(* graph.nodes, in iteration order *)
NodeSeq(g) == [i \in 1..g.n |-> i - 1]

HasEdge(g, u, v) == <<u, v>> \in DOMAIN g.adj

(* graph.neighbors(u) (successors of u in a DiGraph), in iteration order *)
Neighbors(g, u) == SortedSeq({v \in Nodes(g) : HasEdge(g, u, v)})

(* graph.predecessors(u) *)
Predecessors(g, u) == SortedSeq({v \in Nodes(g) : HasEdge(g, v, u)})

(* data.get('weight', 0): a variant that counts an unset weight as 0 *)
GetWeightOrZero(data) == IF data = <<>> THEN 0 ELSE data[1]

(* data.get('weight', 1) *)
GetWeight(data) == IF data = <<>> THEN 1 ELSE data[1]

(* graph[u][v].get('weight', 1) *)
Weight(g, u, v) == GetWeight(g.adj[<<u, v>>])

(* graph.edges(data=True): a DiGraph reports every edge, node by node; a   *)
(* Graph reports each edge once, from the endpoint that iterates first     *)
RECURSIVE EdgesFrom(_, _, _)
EdgesFrom(g, u, nbrs) ==
    IF nbrs = <<>> THEN <<>>
    ELSE LET v == Head(nbrs)
         IN (IF g.directed \/ u <= v THEN << <<u, v>> >> ELSE <<>>)
            \o EdgesFrom(g, u, Tail(nbrs))

RECURSIVE EdgesUpTo(_, _)
EdgesUpTo(g, k) ==
    IF k = 0 THEN <<>>
    ELSE EdgesUpTo(g, k - 1) \o EdgesFrom(g, k - 1, Neighbors(g, k - 1))

Edges(g) == EdgesUpTo(g, g.n)

(* bool(node): the truth value Python gives a node identifier *)
Truthy(g, u) == IF g.kind = "int" THEN u # 0 ELSE TRUE

(* --------------------------- call outcomes ---------------------------- *)
(* path is <<>> for None and <<p>> for the list p                          *)
Returned(path, cost) == [tag |-> "return", path |-> path, cost |-> cost, err |-> ""]
Raised(msg) == [tag |-> "raise", path |-> <<>>, cost |-> 0, err |-> msg]
Diverged == [tag |-> "diverge", path |-> <<>>, cost |-> 0, err |-> ""]
NotRun == [tag |-> "none", path |-> <<>>, cost |-> 0, err |-> ""]

(* ------------------------------ dijkstra ------------------------------ *)
(* heapq order on the entries (cost, node, path) *)
DijkstraLess(a, b) ==
    IF a[1] # b[1] THEN a[1] < b[1]
    ELSE IF a[2] # b[2] THEN a[2] < b[2]
    ELSE ListLess(a[3], b[3])

DijkstraPop(pq) == CHOOSE a \in pq : \A b \in pq \ {a} : DijkstraLess(a, b)

DijkstraPush(g, pq, cost, node, path, visited) ==
    pq \cup { <<cost + Weight(g, node, v), v, path>> :
                v \in {x \in Range(Neighbors(g, node)) : x \notin visited} }

RECURSIVE DijkstraLoop(_, _, _, _)
DijkstraLoop(g, end, pq, visited) ==
    IF pq = {} THEN Returned(<<>>, Inf)
    ELSE LET top == DijkstraPop(pq)
             rest == pq \ {top}
             cost == top[1]
             node == top[2]
         IN IF node \in visited THEN DijkstraLoop(g, end, rest, visited)
            ELSE LET path == Append(top[3], node)
                     seen == visited \cup {node}
                 IN IF node = end THEN Returned(<<path>>, cost)
                    ELSE DijkstraLoop(g, end,
                            DijkstraPush(g, rest, cost, node, path, seen), seen)

dijkstra_shortest_path(g, start, end) ==
    DijkstraLoop(g, end, {<<0, start, <<>> >>}, {})

(* ------------------------------- a_star ------------------------------- *)
(* the identifier of node i when identifiers are coordinate tuples *)
Coord(i) == <<i, 0>>

(* np.sqrt on the perfect squares the model's coordinates produce *)
Sqrt(x) == CHOOSE r \in 0..x : r * r = x

(* sum((x - y) ** 2 for x, y in zip(a, b)) *)
SumSquares(a, b) ==
    SumSeq([i \in 1..Len(a) |-> (a[i] - b[i]) * (a[i] - b[i])])

heuristic(g, a, b) ==
    IF g.kind = "coord" THEN Sqrt(SumSquares(Coord(a), Coord(b))) ELSE 0

(* a variant that makes the heap give its greatest entry *)
AStarGreater(a, b) ==
    IF a[1] # b[1] THEN a[1] > b[1]
    ELSE IF a[2] # b[2] THEN a[2] > b[2]
    ELSE IF a[3] # b[3] THEN a[3] > b[3]
    ELSE ListLess(b[4], a[4])

(* heapq order on the entries (f_score, g_score, node, path) *)
AStarLess(a, b) ==
    IF a[1] # b[1] THEN a[1] < b[1]
    ELSE IF a[2] # b[2] THEN a[2] < b[2]
    ELSE IF a[3] # b[3] THEN a[3] < b[3]
    ELSE ListLess(a[4], b[4])

AStarPop(open) == CHOOSE a \in open : \A b \in open \ {a} : AStarLess(a, b)

(* the state of the search: open_set, visited, g_score, the entry popped   *)
(* last and the result once the call has returned                          *)
AStarInit(g, start, end) ==
    [open |-> {<<0 + heuristic(g, start, end), 0, start, <<>> >>},
     visited |-> {},
     g_score |-> (start :> 0),
     popped |-> <<>>,
     result |-> NotRun]

(* the body of "for neighbor in graph.neighbors(node)" for one neighbor *)
AStarRelax(g, end, st, node, path, neighbor) ==
    IF neighbor \in st.visited THEN st
    ELSE LET tentative_g_score == st.g_score[node] + Weight(g, node, neighbor)
         IN IF neighbor \notin DOMAIN st.g_score
               \/ tentative_g_score < st.g_score[neighbor]
            THEN [st EXCEPT
                    !.g_score = DictSet(st.g_score, neighbor, tentative_g_score),
                    !.open = st.open \cup
                        {<<tentative_g_score + heuristic(g, neighbor, end),
                           tentative_g_score, neighbor, path>>}]
            ELSE st

RECURSIVE AStarRelaxAll(_, _, _, _, _, _)
AStarRelaxAll(g, end, st, node, path, nbrs) ==
    IF nbrs = <<>> THEN st
    ELSE AStarRelaxAll(g, end, AStarRelax(g, end, st, node, path, Head(nbrs)),
                       node, path, Tail(nbrs))

(* one iteration of "while open_set" (or the return after the loop) *)
AStarStep(g, end, st) ==
    IF st.open = {} THEN [st EXCEPT !.result = Returned(<<>>, Inf)]
    ELSE LET top == AStarPop(st.open)
             cost == top[2]
             node == top[3]
             st1 == [st EXCEPT !.open = st.open \ {top}, !.popped = <<top>>]
         IN IF node \in st.visited THEN st1
            ELSE LET path == Append(top[4], node)
                     st2 == [st1 EXCEPT !.visited = st.visited \cup {node}]
                 IN IF node = end
                    THEN [st2 EXCEPT !.result = Returned(<<path>>, cost)]
                    ELSE AStarRelaxAll(g, end, st2, node, path, Neighbors(g, node))

RECURSIVE AStarRun(_, _, _)
AStarRun(g, end, st) ==
    IF st.result.tag # "none" THEN st.result
    ELSE AStarRun(g, end, AStarStep(g, end, st))

a_star_shortest_path(g, start, end) == AStarRun(g, end, AStarInit(g, start, end))

(* ---------------------- label-correcting helpers ---------------------- *)
(* Python's None as a predecessor entry *)
None == -1

(* {node: float('inf') for node in graph.nodes}; distance[start] = 0 *)
InitDistance(g, start) == [x \in Nodes(g) |-> IF x = start THEN 0 ELSE Inf]

(* {node: None for node in graph.nodes} *)
InitPredecessor(g) == [x \in Nodes(g) |-> None]

(* the sum of the negative edge weights: no simple path weighs less *)
RECURSIVE NegSumOver(_, _)
NegSumOver(g, D) ==
    IF D = {} THEN 0
    ELSE LET p == CHOOSE q \in D : TRUE
             w == GetWeight(g.adj[p])
         IN (IF w < 0 THEN w ELSE 0) + NegSumOver(g, D \ {p})

NegSum(g) == NegSumOver(g, DOMAIN g.adj)

(* "while current is not None: path.insert(0, current);                   *)
(*  current = predecessor[current]"; <<>> when the chain never ends        *)
RECURSIVE WalkBack(_, _, _)
WalkBack(predecessor, current, path) ==
    IF current = None THEN <<path>>
    ELSE IF current \in Range(path) THEN <<>>
    ELSE WalkBack(predecessor, predecessor[current], <<current>> \o path)

(* ---------------------------- bellman_ford ---------------------------- *)
(* the body of "for u, v, data in graph.edges(data=True)" for one edge *)
BellmanRelax(g, st, e) ==
    LET u == e[1]
        v == e[2]
        weight == Weight(g, u, v)
    IN IF PyAdd(st.distance[u], weight) < st.distance[v]
       THEN [distance |-> [st.distance EXCEPT ![v] = PyAdd(st.distance[u], weight)],
             predecessor |-> [st.predecessor EXCEPT ![v] = u]]
       ELSE st

RECURSIVE BellmanPass(_, _, _)
BellmanPass(g, st, es) ==
    IF es = <<>> \/ ~Evaluated(st) THEN st
    ELSE BellmanPass(g, BellmanRelax(g, st, Head(es)), Tail(es))

(* a variant that makes one pass over the edges, whatever k is *)
BellmanOneRound(g, st, k) == BellmanPass(g, st, Edges(g))

(* "for _ in range(len(graph.nodes) - 1)": k passes over the edges *)
RECURSIVE BellmanRounds(_, _, _)
BellmanRounds(g, st, k) ==
    IF k <= 0 \/ ~Evaluated(st) THEN st
    ELSE BellmanRounds(g, BellmanPass(g, st, Edges(g)), k - 1)

(* the distance and predecessor maps after the |V| - 1 rounds *)
BellmanFinal(g, start) ==
    BellmanRounds(g, [distance |-> InitDistance(g, start),
                      predecessor |-> InitPredecessor(g)], g.n - 1)

(* the extra pass: some edge still relaxes *)
BellmanStillRelaxes(g, st) ==
    \E i \in 1..Len(Edges(g)) :
        LET e == Edges(g)[i]
        IN PyAdd(st.distance[e[1]], Weight(g, e[1], e[2])) < st.distance[e[2]]

bellman_ford_shortest_path(g, start, end) ==
    LET st == BellmanFinal(g, start)
    IN IF BellmanStillRelaxes(g, st)
       THEN Raised("Graph contains a negative-weight cycle")
       ELSE LET path == WalkBack(st.predecessor, end, <<>>)
            IN IF path = <<>> THEN Diverged
               ELSE IF st.distance[end] = Inf THEN Returned(<<>>, Inf)
               ELSE Returned(path, st.distance[end])

(* -------------------------------- spfa -------------------------------- *)
SPFAInit(g, start) ==
    [distance |-> InitDistance(g, start),
     in_queue |-> [x \in Nodes(g) |-> x = start],
     predecessor |-> InitPredecessor(g),
     queue |-> <<start>>]

(* a variant that queues every neighbor, its distance lowered or not *)
SPFARelaxAlways(g, st, u, v) ==
    LET weight == Weight(g, u, v)
        lower == PyAdd(st.distance[u], weight) < st.distance[v]
    IN [st EXCEPT
          !.distance[v] = IF lower THEN PyAdd(st.distance[u], weight) ELSE @,
          !.predecessor[v] = IF lower THEN u ELSE @,
          !.queue = IF st.in_queue[v] THEN st.queue ELSE Append(st.queue, v),
          !.in_queue[v] = TRUE]

(* a variant that gives a node a distance only while it has none *)
SPFARelaxFirstOnly(g, st, u, v) ==
    LET weight == Weight(g, u, v)
    IN IF st.distance[v] = Inf /\ PyAdd(st.distance[u], weight) < st.distance[v]
       THEN [st EXCEPT
               !.distance[v] = PyAdd(st.distance[u], weight),
               !.predecessor[v] = u,
               !.queue = IF st.in_queue[v] THEN st.queue ELSE Append(st.queue, v),
               !.in_queue[v] = TRUE]
       ELSE st

(* the body of "for v in graph.neighbors(u)" for one neighbor *)
SPFARelax(g, st, u, v) ==
    LET weight == Weight(g, u, v)
    IN IF PyAdd(st.distance[u], weight) < st.distance[v]
       THEN [st EXCEPT
               !.distance[v] = PyAdd(st.distance[u], weight),
               !.predecessor[v] = u,
               !.queue = IF st.in_queue[v] THEN st.queue ELSE Append(st.queue, v),
               !.in_queue[v] = TRUE]
       ELSE st

RECURSIVE SPFARelaxAll(_, _, _, _)
SPFARelaxAll(g, st, u, nbrs) ==
    IF nbrs = <<>> THEN st
    ELSE SPFARelaxAll(g, SPFARelax(g, st, u, Head(nbrs)), u, Tail(nbrs))

(* a variant without "in_queue[u] = False" *)
SPFAStepKeepingFlag(g, st) ==
    LET u == Head(st.queue)
        st1 == [st EXCEPT !.queue = Tail(st.queue)]
    IN SPFARelaxAll(g, st1, u, Neighbors(g, u))

(* one iteration of "while queue" *)
SPFAStep(g, st) ==
    LET u == Head(st.queue)
        st1 == [st EXCEPT !.queue = Tail(st.queue), !.in_queue[u] = FALSE]
    IN SPFARelaxAll(g, st1, u, Neighbors(g, u))

(* a distance below every simple path's weight: a negative cycle is being  *)
(* relaxed, the distances fall for ever and the queue never empties        *)
SPFARunsForever(g, st) == \E x \in Nodes(g) : st.distance[x] < NegSum(g)

(* the state when the loop is left; <<>> when it never is *)
RECURSIVE SPFALoop(_, _)
SPFALoop(g, st) ==
    IF st.queue = <<>> THEN <<st>>
    ELSE IF SPFARunsForever(g, st) THEN <<>>
    ELSE SPFALoop(g, SPFAStep(g, st))

(* a variant that returns the walked-back list without comparing its first *)
(* node with start                                                         *)
spfa_without_start_check(g, start, end) ==
    LET fin == SPFALoop(g, SPFAInit(g, start))
    IN IF fin = <<>> THEN Diverged
       ELSE LET st == fin[1]
                path == WalkBack(st.predecessor, end, <<>>)
            IN IF path = <<>> THEN Diverged
               ELSE Returned(path, st.distance[end])

spfa_shortest_path(g, start, end) ==
    LET fin == SPFALoop(g, SPFAInit(g, start))
    IN IF fin = <<>> THEN Diverged
       ELSE LET st == fin[1]
                path == WalkBack(st.predecessor, end, <<>>)
            IN IF path = <<>> THEN Diverged
               ELSE Returned(IF path[1][1] = start THEN path ELSE <<>>,
                             st.distance[end])

(* -------------------------- dag_shortest_path ------------------------- *)
(* nx.topological_sort(graph): Kahn's algorithm by generations; the nodes  *)
(* without a remaining predecessor, in iteration order, then the next ones *)
RECURSIVE TopoGenerations(_, _)
TopoGenerations(g, done) ==
    LET ready == {v \in Nodes(g) \ done :
                    \A u \in Nodes(g) : HasEdge(g, u, v) => u \in done}
    IN IF ready = {} THEN <<>>
       ELSE SortedSeq(ready) \o TopoGenerations(g, done \cup ready)

topological_sort(g) == TopoGenerations(g, {})

(* graph.is_directed(): a variant of the check that accepts every directed *)
(* graph                                                                   *)
is_directed(g) == g.directed

(* nx.is_directed_acyclic_graph(graph): directed and every node sorts *)
is_directed_acyclic_graph(g) ==
    g.directed /\ Len(topological_sort(g)) = g.n

(* the body of "for v in graph.successors(u)" for one successor *)
DagRelax(g, st, u, v) ==
    LET weight == Weight(g, u, v)
    IN IF PyAdd(st.distance[u], weight) < st.distance[v]
       THEN [distance |-> [st.distance EXCEPT ![v] = PyAdd(st.distance[u], weight)],
             predecessor |-> [st.predecessor EXCEPT ![v] = u]]
       ELSE st

RECURSIVE DagRelaxAll(_, _, _, _)
DagRelaxAll(g, st, u, succs) ==
    IF succs = <<>> \/ ~Evaluated(st) THEN st
    ELSE DagRelaxAll(g, DagRelax(g, st, u, Head(succs)), u, Tail(succs))

(* "for u in nx.topological_sort(graph)" *)
RECURSIVE DagSweep(_, _, _)
DagSweep(g, st, order) ==
    IF order = <<>> \/ ~Evaluated(st) THEN st
    ELSE DagSweep(g, DagRelaxAll(g, st, Head(order), Neighbors(g, Head(order))),
                  Tail(order))

(* "while current: path.insert(0, current); current = predecessor[current]" *)
(* the loop also ends at a node whose identifier is falsy                   *)
RECURSIVE DagWalkBack(_, _, _, _)
DagWalkBack(g, predecessor, current, path) ==
    IF current = None \/ ~Truthy(g, current) THEN path
    ELSE DagWalkBack(g, predecessor, predecessor[current], <<current>> \o path)

(* the distance and predecessor maps after the sweep *)
DagFinal(g, start) ==
    DagSweep(g, [distance |-> InitDistance(g, start),
                 predecessor |-> InitPredecessor(g)],
             topological_sort(g))

(* the distance dict when the call ends; <<>> when none was made *)
DagFinalDistance(g, start) ==
    IF ~is_directed_acyclic_graph(g) THEN <<>> ELSE DagFinal(g, start).distance

dag_shortest_path(g, start, end) ==
    IF ~is_directed_acyclic_graph(g) THEN Raised("Graph is not a DAG")
    ELSE LET st == DagFinal(g, start)
             path == DagWalkBack(g, st.predecessor, end, <<>>)
         IN IF path = <<>> THEN Raised("list index out of range")
            ELSE Returned(IF path[1] = start THEN <<path>> ELSE <<>>,
                          st.distance[end])

(* --------------------------- floyd_warshall --------------------------- *)
(* nx.floyd_warshall_predecessor_and_distance(graph, weight='weight').     *)
(* dist maps every pair of nodes to a number (inf when unset); pred maps   *)
(* the pairs (u, v) for which pred[u][v] is set to that node.              *)
FWInit(g) ==
    [dist |-> [p \in Nodes(g) \X Nodes(g) |->
                 IF p[1] = p[2] THEN 0
                 ELSE IF HasEdge(g, p[1], p[2]) THEN Weight(g, p[1], p[2])
                 ELSE Inf],
     pred |-> [p \in DOMAIN g.adj |-> p[1]]]

(* "d = dist_u[w] + dist_w[v]; if dist_u[v] > d: ..." *)
FWRelax(st, w, u, v) ==
    LET d == IF st.dist[<<u, w>>] = Inf \/ st.dist[<<w, v>>] = Inf THEN Inf
             ELSE st.dist[<<u, w>>] + st.dist[<<w, v>>]
    IN IF st.dist[<<u, v>>] > d
       THEN [dist |-> [st.dist EXCEPT ![<<u, v>>] = d],
             pred |-> DictSet(st.pred, <<u, v>>, st.pred[<<w, v>>])]
       ELSE st

(* "for v in G" *)
RECURSIVE FWLoopV(_, _, _, _, _)
FWLoopV(g, st, w, u, v) ==
    IF v = g.n \/ ~Evaluated(st) THEN st
    ELSE FWLoopV(g, FWRelax(st, w, u, v), w, u, v + 1)

(* "for u in G" *)
RECURSIVE FWLoopU(_, _, _, _)
FWLoopU(g, st, w, u) ==
    IF u = g.n \/ ~Evaluated(st) THEN st
    ELSE FWLoopU(g, FWLoopV(g, st, w, u, 0), w, u + 1)

(* "for w in G" *)
RECURSIVE FWLoopW(_, _, _)
FWLoopW(g, st, w) ==
    IF w = g.n \/ ~Evaluated(st) THEN st
    ELSE FWLoopW(g, FWLoopU(g, st, w, 0), w + 1)

floyd_warshall_predecessor_and_distance(g) == FWLoopW(g, FWInit(g), 0)

(* "curr = prev[curr]; path.append(curr)" until curr is source, the path   *)
(* reversed; "KeyError" when a predecessor is missing, "loop" when the     *)
(* predecessors lead round a cycle and the walk never ends                 *)
RECURSIVE ReconstructWalk(_, _, _, _)
ReconstructWalk(pred, source, curr, path) ==
    IF curr = source THEN [tag |-> "ok", path |-> path]
    ELSE IF <<source, curr>> \notin DOMAIN pred THEN [tag |-> "KeyError", path |-> <<>>]
    ELSE IF pred[<<source, curr>>] \in Range(path) \ {source}
         THEN [tag |-> "loop", path |-> <<>>]
    ELSE LET prev == pred[<<source, curr>>]
         IN ReconstructWalk(pred, source, prev, <<prev>> \o path)

(* nx.reconstruct_path(source, target, predecessors) *)
reconstruct_path(source, target, pred) ==
    IF source = target THEN [tag |-> "ok", path |-> <<>>]
    ELSE ReconstructWalk(pred, source, target, <<target>>)

(* a KeyError of reconstruct_path starts the manual reconstruction, which  *)
(* walks the same predecessors from end, misses the same key and returns   *)
(* (None, inf), from its own test or from the outer except                 *)
floyd_warshall_shortest_path(g, start, end) ==
    LET pd == floyd_warshall_predecessor_and_distance(g)
        rec == reconstruct_path(start, end, pd.pred)
    IN IF rec.tag = "loop" THEN Diverged
       ELSE IF rec.tag = "KeyError" THEN Returned(<<>>, Inf)
       ELSE Returned(<<rec.path>>, pd.dist[<<start, end>>])

(* ------------------ networkx's Dijkstra on a heap --------------------- *)
(* heappop on entries (distance, next(c), node): the fringe is kept in     *)
(* push order, so the first entry of least distance is the least entry     *)
FringeTop(fringe) ==
    CHOOSE i \in 1..Len(fringe) :
        \A j \in 1..Len(fringe) :
            \/ fringe[i][1] < fringe[j][1]
            \/ (fringe[i][1] = fringe[j][1] /\ i <= j)

FringeWithout(fringe, i) ==
    SubSeq(fringe, 1, i - 1) \o SubSeq(fringe, i + 1, Len(fringe))

(* _dijkstra_multisource(G, [source], weight, paths=paths): the search of  *)
(* nx.johnson's dist_path. st holds dist, seen, paths, fringe and error.   *)
NxDijkstraRelax(g, st, v, u) ==
    LET vu_dist == st.dist[v] + Weight(g, v, u)
    IN IF u \in DOMAIN st.dist
       THEN IF vu_dist < st.dist[u]
            THEN [st EXCEPT !.error = "Contradictory paths found: negative weights?"]
            ELSE st
       ELSE IF u \notin DOMAIN st.seen \/ vu_dist < st.seen[u]
       THEN [st EXCEPT !.seen = DictSet(st.seen, u, vu_dist),
                       !.fringe = Append(st.fringe, <<vu_dist, u>>),
                       !.paths = DictSet(st.paths, u, Append(st.paths[v], u))]
       ELSE st

RECURSIVE NxDijkstraRelaxAll(_, _, _, _)
NxDijkstraRelaxAll(g, st, v, nbrs) ==
    IF nbrs = <<>> \/ st.error # "" THEN st
    ELSE NxDijkstraRelaxAll(g, NxDijkstraRelax(g, st, v, Head(nbrs)), v, Tail(nbrs))

RECURSIVE NxDijkstraLoop(_, _)
NxDijkstraLoop(g, st) ==
    IF st.fringe = <<>> \/ st.error # "" THEN st
    ELSE LET i == FringeTop(st.fringe)
             d == st.fringe[i][1]
             v == st.fringe[i][2]
             st1 == [st EXCEPT !.fringe = FringeWithout(st.fringe, i)]
         IN IF v \in DOMAIN st.dist THEN NxDijkstraLoop(g, st1)
            ELSE NxDijkstraLoop(g,
                    NxDijkstraRelaxAll(g, [st1 EXCEPT !.dist = DictSet(st.dist, v, d)],
                                       v, Neighbors(g, v)))

NxDijkstra(g, source) ==
    NxDijkstraLoop(g, [dist |-> <<>>,
                       seen |-> (source :> 0),
                       paths |-> (source :> <<source>>),
                       fringe |-> << <<0, source>> >>,
                       error |-> ""])

(* ------------------------------- johnson ------------------------------ *)
(* every stored direction of every edge, as a DiGraph *)
AsDirected(g) == [g EXCEPT !.directed = TRUE]

(* nx.johnson's _bellman_ford(G, list(G), ...): every node is a source at  *)
(* distance 0; what it leaves in dist when no negative cycle exists        *)
JohnsonPotential(g) ==
    BellmanRounds(AsDirected(g), [distance |-> [x \in Nodes(g) |-> 0],
                                  predecessor |-> InitPredecessor(g)], g.n - 1)

(* new_weight(u, v, d) = weight(u, v, d) + dist_bellman[u] - dist_bellman[v] *)
Reweighted(g, h) ==
    [g EXCEPT !.adj = [p \in DOMAIN g.adj |->
                         <<Weight(g, p[1], p[2]) + h[p[1]] - h[p[2]]>>]]

(* sum(graph[path[i]][path[i+1]].get('weight', 1) for i in range(len(path)-1)) *)
PathCost(g, path) ==
    SumSeq([i \in 1..(Len(path) - 1) |-> Weight(g, path[i], path[i + 1])])

johnson_shortest_path(g, start, end) ==
    LET pot == JohnsonPotential(g)
    IN IF BellmanStillRelaxes(AsDirected(g), pot)
       THEN Raised("Negative cycle detected.")
       ELSE LET run == NxDijkstra(Reweighted(g, pot.distance), start)
            IN IF run.error # "" THEN Raised(run.error)
               ELSE IF end \notin DOMAIN run.paths THEN Returned(<<>>, Inf)
               ELSE Returned(<<run.paths[end]>>, PathCost(g, run.paths[end]))

(* ----------------------- bidirectional_dijkstra ----------------------- *)
(* nx.bidirectional_dijkstra(graph, start, end, weight='weight'); side 1   *)
(* searches forward from source, side 2 backward from target               *)
BiInit(source, target) ==
    [dists |-> << <<>>, <<>> >>,
     paths |-> << (source :> <<source>>), (target :> <<target>>) >>,
     fringe |-> << << <<0, source>> >>, << <<0, target>> >> >>,
     seen |-> << (source :> 0), (target :> 0) >>,
     finaldist |-> Inf,
     finalpath |-> <<>>,
     dir |-> 2,
     result |-> NotRun]

RECURSIVE Reverse(_)
Reverse(s) == IF s = <<>> THEN <<>> ELSE Append(Reverse(Tail(s)), Head(s))

(* neighs[dir][v] *)
BiNeighs(g, dir, v) == IF dir = 1 THEN Neighbors(g, v) ELSE Predecessors(g, v)

(* the body of "for w, d in neighs[dir][v].items()" for one neighbor *)
BiRelax(g, st, dir, v, w) ==
    LET cost == IF dir = 1 THEN Weight(g, v, w) ELSE Weight(g, w, v)
        vwLength == st.dists[dir][v] + cost
    IN IF w \in DOMAIN st.dists[dir]
       THEN IF vwLength < st.dists[dir][w]
            THEN [st EXCEPT !.result =
                     Raised("Contradictory paths found: negative weights?")]
            ELSE st
       ELSE IF w \notin DOMAIN st.seen[dir] \/ vwLength < st.seen[dir][w]
       THEN LET st1 == [st EXCEPT
                          !.seen[dir] = DictSet(st.seen[dir], w, vwLength),
                          !.fringe[dir] = Append(st.fringe[dir], <<vwLength, w>>),
                          !.paths[dir] = DictSet(st.paths[dir], w,
                                                 Append(st.paths[dir][v], w))]
            IN IF w \in DOMAIN st1.seen[1] /\ w \in DOMAIN st1.seen[2]
               THEN LET totaldist == st1.seen[1][w] + st1.seen[2][w]
                    IN IF st1.finalpath = <<>> \/ st1.finaldist > totaldist
                       THEN [st1 EXCEPT
                               !.finaldist = totaldist,
                               !.finalpath = st1.paths[1][w]
                                             \o Tail(Reverse(st1.paths[2][w]))]
                       ELSE st1
               ELSE st1
       ELSE st

RECURSIVE BiRelaxAll(_, _, _, _, _)
BiRelaxAll(g, st, dir, v, nbrs) ==
    IF nbrs = <<>> \/ st.result.tag # "none" THEN st
    ELSE BiRelaxAll(g, BiRelax(g, st, dir, v, Head(nbrs)), dir, v, Tail(nbrs))

(* one iteration of "while fringe[0] and fringe[1]" (or the raise after it) *)
BiStep(g, source, target, st) ==
    IF st.fringe[1] = <<>> \/ st.fringe[2] = <<>>
    THEN [st EXCEPT !.result = Raised("NetworkXNoPath")]
    ELSE LET dir == 3 - st.dir
             i == FringeTop(st.fringe[dir])
             dist == st.fringe[dir][i][1]
             v == st.fringe[dir][i][2]
             st1 == [st EXCEPT !.dir = dir,
                               !.fringe[dir] = FringeWithout(st.fringe[dir], i)]
         IN IF v \in DOMAIN st.dists[dir] THEN st1
            ELSE LET st2 == [st1 EXCEPT !.dists[dir] = DictSet(st.dists[dir], v, dist)]
                 IN IF v \in DOMAIN st.dists[3 - dir]
                    THEN [st2 EXCEPT !.result = Returned(<<st.finalpath>>, st.finaldist)]
                    ELSE BiRelaxAll(g, st2, dir, v, BiNeighs(g, dir, v))

RECURSIVE BiRun(_, _, _, _)
BiRun(g, source, target, st) ==
    IF st.result.tag # "none" THEN st.result
    ELSE BiRun(g, source, target, BiStep(g, source, target, st))

nx_bidirectional_dijkstra(g, source, target) ==
    IF source = target THEN Returned(<< <<source>> >>, 0)
    ELSE BiRun(g, source, target, BiInit(source, target))

bidirectional_dijkstra_shortest_path(g, start, end) ==
    LET res == nx_bidirectional_dijkstra(g, start, end)
    IN IF res.tag = "raise"
       THEN IF res.err = "NetworkXNoPath" THEN Returned(<<>>, Inf) ELSE res
       ELSE Returned(res.path, PathCost(g, res.path[1]))

(* ------------------- Yen's K shortest simple paths -------------------- *)
(* a call that returned a list of paths: path holds the list *)
Listed(paths) == [tag |-> "list", path |-> paths, cost |-> 0, err |-> ""]

(* the graph the filtered neighbour iterators of simple_paths'               *)
(* _bidirectional_dijkstra walk: no edge into or out of an ignored node, no  *)
(* ignored edge, and for nx.Graph no edge whose reverse is ignored           *)
FilterIter(g, ignore_nodes, ignore_edges) ==
    LET kept == {p \in DOMAIN g.adj :
                    /\ p[1] \notin ignore_nodes
                    /\ p[2] \notin ignore_nodes
                    /\ p \notin ignore_edges
                    /\ (g.directed \/ <<p[2], p[1]>> \notin ignore_edges)}
    IN [g EXCEPT !.adj = [p \in kept |-> g.adj[p]]]

(* simple_paths._bidirectional_dijkstra(G, source, target, weight,           *)
(* ignore_nodes, ignore_edges): Returned(<<path>>, length) or a raise        *)
simple_bidirectional_dijkstra(g, source, target, ignore_nodes, ignore_edges) ==
    IF source \in ignore_nodes \/ target \in ignore_nodes
    THEN Raised("NetworkXNoPath")
    ELSE nx_bidirectional_dijkstra(FilterIter(g, ignore_nodes, ignore_edges),
                                   source, target)

(* PathBuffer.push: a path already in the buffer is not pushed again *)
BufferPush(listB, cost, path) ==
    IF \E i \in 1..Len(listB) : listB[i][2] = path THEN listB
    ELSE Append(listB, <<cost, path>>)

(* the edges leaving root along the paths of listA that begin with root *)
RootEdges(listA, root) ==
    LET i == Len(root)
    IN {<<listA[j][i], listA[j][i + 1]>> :
            j \in {m \in 1..Len(listA) : /\ Len(listA[m]) > i
                                         /\ SubSeq(listA[m], 1, i) = root}}

(* the one element of a set of one element: Once({F(x) : x \in {e}}) is    *)
(* F(e) with e computed a single time                                      *)
Once(S) == CHOOSE r \in S : TRUE

(* the body of "for i in range(1, len(prev_path))" for one i: the spur     *)
(* search from prev_path[i-1]. sp holds listB, ignore_nodes, ignore_edges  *)
(* and err, the exception that left the loop ("" for none)                 *)
SpurStep(g, target, listA, prev_path, i, sp) ==
    LET root == SubSeq(prev_path, 1, i)
        root_length == PathCost(g, root)
        edges == sp.ignore_edges \cup RootEdges(listA, root)
    IN Once({[listB |-> IF res.tag = "raise" THEN sp.listB
                        ELSE BufferPush(sp.listB, root_length + res.cost,
                                        SubSeq(root, 1, i - 1) \o res.path[1]),
              ignore_nodes |-> sp.ignore_nodes \cup {root[i]},
              ignore_edges |-> edges,
              err |-> IF res.tag = "raise" /\ res.err # "NetworkXNoPath"
                      THEN res.err ELSE ""] :
             res \in {simple_bidirectional_dijkstra(g, root[i], target,
                                                    sp.ignore_nodes, edges)}})

RECURSIVE SpurLoop(_, _, _, _, _, _)
SpurLoop(g, target, listA, prev_path, i, sp) ==
    IF i >= Len(prev_path) \/ sp.err # "" THEN sp
    ELSE Once({SpurLoop(g, target, listA, prev_path, i + 1, after) :
                  after \in {SpurStep(g, target, listA, prev_path, i, sp)}})

(* what one next() on the generator pushes before it pops: the shortest    *)
(* path when there is no prev_path, the spur paths of prev_path otherwise  *)
SimplePathsPush(g, source, target, gen) ==
    IF gen.prev_path = <<>>
    THEN Once({[listB |-> IF first.tag = "raise" THEN gen.listB
                          ELSE BufferPush(gen.listB, first.cost, first.path[1]),
                ignore_nodes |-> {}, ignore_edges |-> {},
                err |-> IF first.tag = "raise" THEN first.err ELSE ""] :
               first \in {simple_bidirectional_dijkstra(g, source, target,
                                                        {}, {})}})
    ELSE SpurLoop(g, target, gen.listA, gen.prev_path, 1,
                  [listB |-> gen.listB, ignore_nodes |-> {},
                   ignore_edges |-> {}, err |-> ""])

(* "if listB: path = listB.pop(); yield path; listA.append(path);          *)
(* prev_path = path, else: break" after the pushes sp                      *)
SimplePathsPop(gen, sp) ==
    IF sp.err # "" THEN [tag |-> "raise", err |-> sp.err, path |-> <<>>, gen |-> gen]
    ELSE IF sp.listB = <<>> THEN [tag |-> "stop", err |-> "", path |-> <<>>, gen |-> gen]
    ELSE LET top == FringeTop(sp.listB)
             path == sp.listB[top][2]
         IN [tag |-> "yield", err |-> "", path |-> path,
             gen |-> [listA |-> Append(gen.listA, path),
                      listB |-> FringeWithout(sp.listB, top),
                      prev_path |-> path]]

(* one next() on nx.shortest_simple_paths(G, source, target, weight):        *)
(* gen holds listA, listB and prev_path (<<>> for None); the answer has tag  *)
(* "yield" with the path and the generator after it, "stop", or "raise"      *)
SimplePathsNext(g, source, target, gen) ==
    Once({SimplePathsPop(gen, sp) :
             sp \in {SimplePathsPush(g, source, target, gen)}})

(* for i, path in enumerate(paths_iterator): if i >= k: break;               *)
(* paths.append(path), inside try / except (NetworkXNoPath, NodeNotFound)    *)
RECURSIVE TakePaths(_, _, _, _, _, _, _)
TakePaths(g, start, end, k, i, paths, gen) ==
    Once({IF nxt.tag = "raise"
          THEN IF nxt.err = "NetworkXNoPath" THEN Listed(paths)
               ELSE Raised(nxt.err)
          ELSE IF nxt.tag = "stop" THEN Listed(paths)
          ELSE IF i >= k THEN Listed(paths)
          ELSE TakePaths(g, start, end, k, i + 1, Append(paths, nxt.path),
                         nxt.gen) :
          nxt \in {SimplePathsNext(g, start, end, gen)}})

(* def shortest_path(graph, start, end, k=1) *)
DefaultK == 1

(* yen_k_shortest.shortest_path(graph, start, end, k): the loop of lines     *)
(* 18-33 walks the same iterator as the loop of lines 45-52 and keeps        *)
(* nothing of it, so an exception it lets through ends the call there and    *)
(* otherwise the second loop gives the list that is returned                 *)
yen_shortest_path(g, start, end, k) ==
    LET fresh == [listA |-> <<>>, listB |-> <<>>, prev_path |-> <<>>]
        paths_with_cost == TakePaths(g, start, end, k, 0, <<>>, fresh)
    IN IF paths_with_cost.tag = "raise" THEN paths_with_cost
       ELSE TakePaths(g, start, end, k, 0, <<>>, fresh)

(* ------------------------------ the inputs ---------------------------- *)
EdgeData == {<<>>} \cup {<<w>> : w \in (0 - MaxNeg)..MaxWeight}

Pairs(n) == {p \in (0..(n - 1)) \X (0..(n - 1)) : p[1] # p[2]}

UpPairs(n) == {p \in Pairs(n) : p[1] < p[2]}

FewOf(S) == {D \in SUBSET S : Cardinality(D) <= MaxEdges}

(* nx.DiGraph with the edges of f *)
DiGraph(n, f, kind) == [n |-> n, directed |-> TRUE, adj |-> f, kind |-> kind]

(* nx.Graph with the edges of f: each edge is stored in both directions *)
Graph(n, f, kind) ==
    [n |-> n, directed |-> FALSE, kind |-> kind,
     adj |-> [p \in DOMAIN f \cup {<<q[2], q[1]>> : q \in DOMAIN f} |->
                IF p \in DOMAIN f THEN f[p] ELSE f[<<p[2], p[1]>>]]]

DiGraphs(n, kind) ==
    {DiGraph(n, f, kind) : f \in UNION {[D -> EdgeData] : D \in FewOf(Pairs(n))}}

UnGraphs(n, kind) ==
    {Graph(n, f, kind) : f \in UNION {[D -> EdgeData] : D \in FewOf(UpPairs(n))}}

(* graph_generator.py; "A".."E" are nodes 0..4 *)
simple_weighted_graph ==
    DiGraph(5, (<<0, 1>> :> <<1>>) @@ (<<0, 2>> :> <<4>>) @@ (<<1, 2>> :> <<2>>)
               @@ (<<1, 3>> :> <<5>>) @@ (<<2, 3>> :> <<1>>) @@ (<<3, 4>> :> <<3>>),
            "str")

negative_weight_graph ==
    DiGraph(4, (<<0, 1>> :> <<4>>) @@ (<<0, 2>> :> <<2>>) @@ (<<1, 2>> :> <<-3>>)
               @@ (<<2, 3>> :> <<2>>),
            "str")

disconnected_graph ==
    Graph(4, (<<0, 1>> :> <<>>) @@ (<<2, 3>> :> <<>>), "str")

TestGraphs == {simple_weighted_graph, negative_weight_graph, disconnected_graph}

(* Two chains 0 -> {1, 2}, 2 -> 1 and 5 -> 4 -> 3 that no edge connects; the
   edge 2 -> 1 has weight -1 and there is no cycle at all. Nodes are integers,
   as in the graphs of graph_loader.py and of nx.erdos_renyi_graph. *)
two_chains_graph ==
    DiGraph(6, (<<0, 1>> :> <<>>) @@ (<<0, 2>> :> <<>>) @@ (<<2, 1>> :> <<-1>>)
               @@ (<<4, 3>> :> <<>>) @@ (<<5, 4>> :> <<>>),
            "int")

(* The kinds of node identifier: integers 0..n-1, strings, and coordinate
   tuples (node i is the point (i, 0)). *)
Kinds == {"int", "str", "coord"}

BoundedGraphs ==
    UNION {DiGraphs(NumNodes, kind) \cup UnGraphs(NumNodes, kind) : kind \in Kinds}

AllGraphs == BoundedGraphs \cup TestGraphs \cup {two_chains_graph}

(* A directed graph whose cycle 0 -> 1 -> 0 has weight -1. *)
negative_cycle_graph ==
    DiGraph(3, (<<0, 1>> :> <<1>>) @@ (<<1, 0>> :> <<-2>>) @@ (<<1, 2>> :> <<1>>),
            "str")

(* ------------------------- utils/benchmark.py ------------------------- *)
(* The callables a mapping can hold, by the name the model gives them. *)
AlgorithmNames ==
    {"dijkstra", "a_star", "bellman_ford", "spfa", "dag", "floyd_warshall",
     "johnson", "bidirectional", "yen"}

(* algorithm(graph, start, end) *)
Invoke(name, g, s, e) ==
    CASE name = "dijkstra" -> dijkstra_shortest_path(g, s, e)
      [] name = "a_star" -> a_star_shortest_path(g, s, e)
      [] name = "bellman_ford" -> bellman_ford_shortest_path(g, s, e)
      [] name = "spfa" -> spfa_shortest_path(g, s, e)
      [] name = "dag" -> dag_shortest_path(g, s, e)
      [] name = "floyd_warshall" -> floyd_warshall_shortest_path(g, s, e)
      [] name = "johnson" -> johnson_shortest_path(g, s, e)
      [] name = "bidirectional" -> bidirectional_dijkstra_shortest_path(g, s, e)
      [] name = "yen" -> yen_shortest_path(g, s, e, DefaultK)

(* What time.time() and memory_info().rss differ by around one invocation. *)
Readings == {[time |-> r, mem |-> r] : r \in 0..MaxReading}

(* "len(result[0]) if result and result[0] else 0": result is the returned   *)
(* tuple (path, cost), which is truthy; result[0] is falsy when it is None   *)
(* or the empty list                                                         *)
PathLength(out) ==
    IF out.path # <<>> /\ out.path[1] # <<>> THEN Len(out.path[1]) ELSE 0

(* "result[1] if result else float('inf')": the cost of a returned tuple;  *)
(* Yen's list of paths is falsy when empty, and its result[1] is otherwise *)
(* its second path                                                         *)
ResultCost(out) ==
    IF out.tag = "list"
    THEN IF out.path = <<>> THEN Inf ELSE out.path[2]
    ELSE out.cost

(* the metrics dict measure_performance's wrapper returns with the result *)
wrapper(out, reading) ==
    [execution_time |-> reading.time,
     memory_used_mb |-> reading.mem,
     path_length |-> PathLength(out),
     path_cost |-> ResultCost(out)]

(* how the wrapped call ends: as func does, but result[1] raises           *)
(* IndexError when func returned a list of one path                        *)
Measured(out) ==
    IF out.tag = "list" /\ Len(out.path) = 1
    THEN Raised("list index out of range")
    ELSE out

(* "result is not None": result is the tuple or the list the algorithm     *)
(* returned, which is not None whatever it holds                           *)
ResultIsNotNone(out) == out.tag \in {"return", "list"}

(* the record of an invocation that returned *)
SuccessRecord(name, out, reading) ==
    LET metrics == wrapper(out, reading)
    IN [algorithm |-> name,
        execution_time |-> metrics.execution_time,
        memory_used_mb |-> metrics.memory_used_mb,
        path_length |-> metrics.path_length,
        path_cost |-> metrics.path_cost,
        success |-> ResultIsNotNone(out)]

(* a variant without the except clause *)
CatchesNothing(out) == FALSE

(* "except Exception as e": ValueError, IndexError and NetworkXUnbounded, *)
(* the exceptions the algorithms raise, all derive from Exception         *)
Catches(out) == out.tag = "raise"

(* the record appended in the except branch *)
FailureRecord(name, out) ==
    [algorithm |-> name,
     execution_time |-> Inf,
     memory_used_mb |-> 0,
     path_length |-> 0,
     path_cost |-> Inf,
     success |-> FALSE,
     error |-> out.err]

(* "for name, algorithm in algorithms.items()" from the i-th item on, res  *)
(* being self.results. The loop ends by falling through ("returned"), by   *)
(* an exception no except clause takes ("propagated") or not at all, when  *)
(* an invocation never returns ("hung").                                   *)
RECURSIVE RunLoop(_, _, _, _, _, _, _)
RunLoop(names, readings, i, g, s, e, res) ==
    IF i > Len(names) THEN [results |-> res, ret |-> "returned"]
    ELSE LET out == Measured(Invoke(names[i], g, s, e))
         IN IF out.tag = "diverge" THEN [results |-> res, ret |-> "hung"]
            ELSE IF out.tag \in {"return", "list"}
            THEN RunLoop(names, readings, i + 1, g, s, e,
                         Append(res, SuccessRecord(names[i], out, readings[i])))
            ELSE IF Catches(out)
            THEN RunLoop(names, readings, i + 1, g, s, e,
                         Append(res, FailureRecord(names[i], out)))
            ELSE [results |-> res, ret |-> "propagated"]

(* NaN, which pandas puts where a row has no value for a column *)
NaN == "NaN"

(* pd.DataFrame(rows): one row per dict, one column per key of any dict *)
DataFrame(rows) ==
    IF \E i \in 1..Len(rows) : "error" \in DOMAIN rows[i]
    THEN [i \in 1..Len(rows) |->
            IF "error" \in DOMAIN rows[i] THEN rows[i]
            ELSE [error |-> NaN] @@ rows[i]]
    ELSE rows

(* df.to_csv(filename, index=False): the rows of the file; NaN is written *)
(* as the empty field                                                     *)
to_csv(df) ==
    [i \in 1..Len(df) |->
        IF "error" \in DOMAIN df[i] /\ df[i].error = NaN
        THEN [df[i] EXCEPT !.error = ""]
        ELSE df[i]]

(* The mappings of a call: at most MaxAlgs names, in any insertion order. *)
Mappings ==
    {names \in UNION {[1..k -> AlgorithmNames] : k \in 0..MaxAlgs} :
        \A i, j \in 1..Len(names) : i # j => names[i] # names[j]}

(* ------------------------------ the state ----------------------------- *)
VARIABLES
    graph,      \* the graph of the query
    start,      \* the start node of the query
    end,        \* the end node of the query
    k,          \* the number of paths asked of Yen's algorithm
    alg,        \* the algorithm that was called, "" before the call
    outcome,    \* what the call did
    distance,   \* the distance dict a Bellman-Ford, SPFA or DAG call ended
                \* with, <<>> when it made none
    results,    \* AlgorithmBenchmark.results
    calls,      \* the number of run_benchmark calls made on the instance
    requested,  \* the names of the mapping of the last run_benchmark call
    batch,      \* the rows of the DataFrame the last run_benchmark returned
    ret,        \* how the last run_benchmark call ended, "none" before it
    saved,      \* the rows of the file save_results wrote
    previous,   \* what the call before the last one did, when alg was
                \* called twice
    best_algo_name, \* st.session_state.best_algo_name: <<>> for None,
                    \* <<name>> for a name
    best_path,  \* st.session_state.best_path: <<>> for None, <<p>> for p
    shown,      \* what the last click on "Run Selected Algorithms" ended
                \* with, "none" before it
    locals      \* the local variables of a call of SPFA or A* that is
                \* followed iteration by iteration, <<>> when there is none

vars == <<graph, start, end, k, alg, outcome, distance, results, calls,
          requested, batch, ret, saved, previous, best_algo_name, best_path,
          shown, locals>>

queryVars == <<graph, start, end, k>>

algVars == <<alg, outcome, distance, previous, locals>>

appVars == <<best_algo_name, best_path, shown>>

benchVars == <<results, calls, requested, batch, ret, saved>>

(* AlgorithmBenchmark.__init__ and the session state app.py sets up, and *)
(* no call made yet                                                      *)
Fresh ==
    /\ alg = ""
    /\ outcome = NotRun
    /\ distance = <<>>
    /\ results = <<>>
    /\ calls = 0
    /\ requested = <<>>
    /\ batch = <<>>
    /\ ret = "none"
    /\ saved = <<>>
    /\ previous = NotRun
    /\ best_algo_name = <<>>
    /\ best_path = <<>>
    /\ shown = "none"
    /\ locals = <<>>

Query(G) ==
    /\ graph \in G
    /\ start \in Nodes(graph)
    /\ end \in Nodes(graph)
    /\ k = DefaultK
    /\ Fresh

(* one call algorithm(graph, start, end) *)
Call(name, res, dist) ==
    /\ alg = ""
    /\ alg' = name
    /\ outcome' = res
    /\ distance' = dist
    /\ UNCHANGED <<queryVars, previous, locals>>
    /\ UNCHANGED benchVars
    /\ UNCHANGED appVars

(* the distance dict when SPFA's loop is left *)
SPFAFinalDistance(g, s) ==
    LET fin == SPFALoop(g, SPFAInit(g, s))
    IN IF fin = <<>> THEN <<>> ELSE fin[1].distance

CallDijkstra == Call("dijkstra", dijkstra_shortest_path(graph, start, end), <<>>)
CallAStar == Call("a_star", a_star_shortest_path(graph, start, end), <<>>)
CallBellmanFord ==
    Call("bellman_ford", bellman_ford_shortest_path(graph, start, end),
         BellmanFinal(graph, start).distance)
CallSPFA ==
    Call("spfa", spfa_shortest_path(graph, start, end),
         SPFAFinalDistance(graph, start))
CallDag ==
    Call("dag", dag_shortest_path(graph, start, end),
         DagFinalDistance(graph, start))
CallFloydWarshall ==
    Call("floyd_warshall", floyd_warshall_shortest_path(graph, start, end), <<>>)
CallJohnson == Call("johnson", johnson_shortest_path(graph, start, end), <<>>)
CallBidirectional ==
    Call("bidirectional", bidirectional_dijkstra_shortest_path(graph, start, end),
         <<>>)

Init == Query(AllGraphs)

Next ==
    \/ CallDijkstra
    \/ CallAStar
    \/ CallBellmanFord
    \/ CallSPFA
    \/ CallDag
    \/ CallFloydWarshall
    \/ CallJohnson
    \/ CallBidirectional

Spec == Init /\ [][Next]_vars

(* ----------------------- the same call, a second time ---------------- *)
Repeated == {"dijkstra", "a_star", "bellman_ford", "spfa"}

(* algorithm(graph, start, end) once more, after the call returned or      *)
(* raised: every dict, heap and queue of the call is made anew by it, and  *)
(* the graph is as the first call found it                                 *)
Again(name, res, dist) ==
    /\ alg = name
    /\ previous = NotRun
    /\ outcome.tag # "diverge"
    /\ previous' = outcome
    /\ outcome' = res
    /\ distance' = dist
    /\ UNCHANGED <<alg, queryVars, locals>>
    /\ UNCHANGED benchVars
    /\ UNCHANGED appVars

(* spfa.shortest_path with a distance dict that outlives the call: the     *)
(* second call starts from the distances the first one left                *)
spfa_on_kept_distance(g, s, e) ==
    LET kept == [SPFAInit(g, s) EXCEPT !.distance = distance]
        st == SPFALoop(g, kept)[1]
        path == WalkBack(st.predecessor, e, <<>>)
    IN Returned(IF path[1][1] = s THEN path ELSE <<>>, st.distance[e])

CallSPFAAgainOnKeptDistance ==
    Again("spfa", spfa_on_kept_distance(graph, start, end),
          SPFAFinalDistance(graph, start))

CallDijkstraAgain ==
    Again("dijkstra", dijkstra_shortest_path(graph, start, end), <<>>)
CallAStarAgain ==
    Again("a_star", a_star_shortest_path(graph, start, end), <<>>)
CallBellmanFordAgain ==
    Again("bellman_ford", bellman_ford_shortest_path(graph, start, end),
          BellmanFinal(graph, start).distance)
CallSPFAAgain ==
    Again("spfa", spfa_shortest_path(graph, start, end),
          SPFAFinalDistance(graph, start))

NextAgain ==
    \/ CallDijkstra
    \/ CallAStar
    \/ CallBellmanFord
    \/ CallSPFA
    \/ CallDijkstraAgain
    \/ CallAStarAgain
    \/ CallBellmanFordAgain
    \/ CallSPFAAgain

SpecAgain == Init /\ [][NextAgain]_vars

(* ---------------- a call of SPFA, iteration by iteration -------------- *)
(* lines 25-31 of spfa.py once the loop is left with the locals st *)
SPFAResult(st, s, e) ==
    LET path == WalkBack(st.predecessor, e, <<>>)
    IN IF path = <<>> THEN Diverged
       ELSE Returned(IF path[1][1] = s THEN path ELSE <<>>, st.distance[e])

(* lines 4-10: the call is entered *)
SPFAEnter ==
    /\ alg = ""
    /\ alg' = "spfa"
    /\ locals' = SPFAInit(graph, start)
    /\ UNCHANGED <<queryVars, outcome, distance, previous>>
    /\ UNCHANGED benchVars
    /\ UNCHANGED appVars

(* one iteration of "while queue" (lines 12-22). Once a distance is below  *)
(* every simple path's weight the loop is known never to end and is        *)
(* followed no further.                                                    *)
SPFAIterate ==
    /\ alg = "spfa"
    /\ outcome = NotRun
    /\ locals.queue # <<>>
    /\ ~SPFARunsForever(graph, locals)
    /\ locals' = SPFAStep(graph, locals)
    /\ UNCHANGED <<queryVars, alg, outcome, distance, previous>>
    /\ UNCHANGED benchVars
    /\ UNCHANGED appVars

(* the queue is empty: lines 25-31 *)
SPFAReturn ==
    /\ alg = "spfa"
    /\ outcome = NotRun
    /\ locals.queue = <<>>
    /\ outcome' = SPFAResult(locals, start, end)
    /\ distance' = locals.distance
    /\ UNCHANGED <<queryVars, alg, previous, locals>>
    /\ UNCHANGED benchVars
    /\ UNCHANGED appVars

(* SPFA reads node ids only as keys, so one kind of id is drawn. *)
LoopGraphs == {g \in AllGraphs : g.kind = "int" \/ g \in TestGraphs}
                 \cup {negative_cycle_graph}

InitSPFA == Query(LoopGraphs)

NextSPFA ==
    \/ SPFAEnter
    \/ SPFAIterate
    \/ SPFAReturn

SpecSPFA == InitSPFA /\ [][NextSPFA]_vars

(* The graphs drawn are closed under renaming of nodes, so for the loop's  *)
(* ending one start node stands for all, and so does one end node other    *)
(* than start.                                                             *)
InitSPFALive == InitSPFA /\ start = 0 /\ end \in {0, 1}

(* The call is one thread of control that runs on while it can. *)
SpecSPFALive == InitSPFALive /\ [][NextSPFA]_vars /\ WF_vars(NextSPFA)

(* ----------------- a call of A*, iteration by iteration --------------- *)
(* lines 35-39: the call is entered *)
AStarEnter ==
    /\ alg = ""
    /\ alg' = "a_star"
    /\ locals' = AStarInit(graph, start, end)
    /\ UNCHANGED <<queryVars, outcome, distance, previous>>
    /\ UNCHANGED benchVars
    /\ UNCHANGED appVars

(* one iteration of "while open_set" (lines 41-62), which returns from the *)
(* call when the node popped is end                                        *)
AStarIterate ==
    /\ alg = "a_star"
    /\ outcome = NotRun
    /\ locals.open # {}
    /\ \E st \in {AStarStep(graph, end, locals)} :
          /\ locals' = st
          /\ outcome' = st.result
    /\ UNCHANGED <<queryVars, alg, distance, previous>>
    /\ UNCHANGED benchVars
    /\ UNCHANGED appVars

(* the open set is empty: line 64 *)
AStarExhausted ==
    /\ alg = "a_star"
    /\ outcome = NotRun
    /\ locals.open = {}
    /\ \E st \in {AStarStep(graph, end, locals)} :
          /\ locals' = st
          /\ outcome' = st.result
    /\ UNCHANGED <<queryVars, alg, distance, previous>>
    /\ UNCHANGED benchVars
    /\ UNCHANGED appVars

(* A* reads node ids as keys and, when they are tuples, as coordinates. *)
AStarGraphs == {g \in AllGraphs : g.kind \in {"int", "coord"} \/ g \in TestGraphs}

InitAStar == Query(AStarGraphs)

NextAStar ==
    \/ AStarEnter
    \/ AStarIterate
    \/ AStarExhausted

SpecAStar == InitAStar /\ [][NextAStar]_vars

(* ------------------------- calls of Yen's algorithm ------------------- *)
CallYen == Call("yen", yen_shortest_path(graph, start, end, k), <<>>)

(* Yen's algorithm reads node ids only as keys, so one kind of id is drawn. *)
YenGraphs == {g \in AllGraphs : g.kind = "int" \/ g \in TestGraphs}

InitYen ==
    /\ graph \in YenGraphs
    /\ start \in Nodes(graph)
    /\ end \in Nodes(graph)
    /\ k \in 0..MaxK
    /\ Fresh

NextYen == CallYen

SpecYen == InitYen /\ [][NextYen]_vars

(* ------------------------ the benchmark harness ----------------------- *)
(* run_benchmark(algorithms, graph, start, end) on the instance: the whole *)
(* call. A call in which an invocation never returns never ends, and no    *)
(* later operation on the instance happens.                                *)
RunBenchmark ==
    /\ ret # "hung"
    /\ calls < MaxCalls
    /\ calls' = calls + 1
    /\ \E names \in Mappings :
         /\ Len(results) + Len(names) <= MaxRecords
         /\ \E readings \in [1..Len(names) -> Readings] :
              LET run == RunLoop(names, readings, 1, graph, start, end, results)
              IN /\ results' = run.results
                 /\ ret' = run.ret
                 /\ requested' = names
                 /\ batch' = IF run.ret = "returned" THEN DataFrame(run.results)
                             ELSE batch
    /\ UNCHANGED <<queryVars, saved>>
    /\ UNCHANGED algVars
    /\ UNCHANGED appVars

(* a save_results that empties the list once the file is written *)
SaveResultsAndClear ==
    /\ ret # "hung"
    /\ saved' = to_csv(DataFrame(results))
    /\ results' = <<>>
    /\ UNCHANGED <<queryVars, calls, requested, batch, ret>>
    /\ UNCHANGED algVars
    /\ UNCHANGED appVars

(* save_results(filename) *)
SaveResults ==
    /\ ret # "hung"
    /\ saved' = to_csv(DataFrame(results))
    /\ UNCHANGED <<queryVars, results, calls, requested, batch, ret>>
    /\ UNCHANGED algVars
    /\ UNCHANGED appVars

(* The queries the harness is run on. *)
BenchQueries ==
    {<<simple_weighted_graph, 0, 4>>, <<negative_weight_graph, 0, 3>>,
     <<disconnected_graph, 0, 3>>, <<two_chains_graph, 0, 3>>,
     <<negative_cycle_graph, 0, 2>>, <<simple_weighted_graph, 2, 2>>}

InitBench ==
    /\ \E q \in BenchQueries :
         /\ graph = q[1]
         /\ start = q[2]
         /\ end = q[3]
    /\ k = DefaultK
    /\ Fresh

NextBench ==
    \/ RunBenchmark
    \/ SaveResults

SpecBench == InitBench /\ [][NextBench]_vars

(* ---------------------------- the application ------------------------- *)
(* the keys of the algorithms dict of app.py *)
AppAlgorithms == AlgorithmNames \ {"dag"}

(* what the multiselect can hold: names of the dict, in the order chosen *)
Selections == {names \in Mappings : Range(names) \subseteq AppAlgorithms}

(* df['path_cost'].idxmin(): the label of the first row of least path_cost *)
idxmin(df) ==
    CHOOSE i \in 1..Len(df) :
        \A j \in 1..Len(df) :
            \/ df[i].path_cost < df[j].path_cost
            \/ (df[i].path_cost = df[j].path_cost /\ i <= j)

(* "st.session_state.best_path, _ = algorithms[name](graph, start, end)":   *)
(* what the click ends with and the best_path it leaves, old being the      *)
(* best_path before it. A list of other than two items does not unpack.     *)
ReRun(name, g, s, e, old) ==
    LET out == Invoke(name, g, s, e)
    IN CASE out.tag = "return" -> [shown |-> "best", best_path |-> out.path]
         [] out.tag = "list" /\ Len(out.path) = 2 ->
                [shown |-> "best", best_path |-> <<out.path[1]>>]
         [] out.tag = "diverge" -> [shown |-> "hung", best_path |-> old]
         [] OTHER -> [shown |-> "raised", best_path |-> old]

(* the handler of the button "Run Selected Algorithms", for a graph and a  *)
(* query that are set: a new AlgorithmBenchmark, its run_benchmark on the  *)
(* selection, the table of the batch and the choice of the best record.    *)
(* The table's column selection raises KeyError on a frame of no rows.     *)
(* One click is followed per session.                                      *)
RunSelected ==
    /\ shown = "none"
    /\ \E names \in Selections :
         \E readings \in [1..Len(names) -> Readings] :
            \E run \in {RunLoop(names, readings, 1, graph, start, end, <<>>)} :
               LET df == DataFrame(run.results)
                   best_algo == df[idxmin(df)]
               IN /\ results' = run.results
                  /\ calls' = 1
                  /\ requested' = names
                  /\ ret' = run.ret
                  /\ batch' = IF run.ret = "returned" THEN df ELSE batch
                  /\ IF run.ret # "returned"
                     THEN /\ shown' = IF run.ret = "hung" THEN "hung" ELSE "raised"
                          /\ UNCHANGED <<best_algo_name, best_path>>
                     ELSE IF df = <<>>
                     THEN /\ shown' = "raised"
                          /\ UNCHANGED <<best_algo_name, best_path>>
                     ELSE IF best_algo.success
                     THEN \E again \in {ReRun(best_algo.algorithm, graph, start,
                                              end, best_path)} :
                             /\ best_algo_name' = <<best_algo.algorithm>>
                             /\ best_path' = again.best_path
                             /\ shown' = again.shown
                     ELSE /\ shown' = "warning"
                          /\ best_path' = <<>>
                          /\ best_algo_name' = <<>>
    /\ UNCHANGED <<queryVars, saved>>
    /\ UNCHANGED algVars

InitApp == InitBench

NextApp == RunSelected

SpecApp == InitApp /\ [][NextApp]_vars

(* ----------------------- what the claims refer to --------------------- *)
(* The weight of edge (u, v), an edge with no weight set counting as 1. *)
EdgeWeight(g, u, v) ==
    IF g.adj[<<u, v>>] = <<>> THEN 1 ELSE g.adj[<<u, v>>][1]

(* The simple paths that extend path and end at e. *)
RECURSIVE Extend(_, _, _)
Extend(g, e, path) ==
    LET u == path[Len(path)]
    IN IF u = e THEN {path}
       ELSE UNION {Extend(g, e, Append(path, v)) :
                     v \in {x \in Nodes(g) \ Range(path) : <<u, x>> \in DOMAIN g.adj}}

SimplePaths(g, s, e) == Extend(g, e, <<s>>)

RECURSIVE TotalWeight(_, _)
TotalWeight(g, path) ==
    IF Len(path) < 2 THEN 0
    ELSE EdgeWeight(g, path[1], path[2]) + TotalWeight(g, Tail(path))

Reachable(g, s, e) == SimplePaths(g, s, e) # {}

(* The minimum total weight of a path from s to e, for e reachable from s. *)
MinWeight(g, s, e) == SetMin({TotalWeight(g, p) : p \in SimplePaths(g, s, e)})

NonNegative(g) == \A p \in DOMAIN g.adj : EdgeWeight(g, p[1], p[2]) >= 0

(* A closed walk of negative total weight. An undirected edge of negative *)
(* weight, walked there and back, is one.                                 *)
HasNegativeCycle(g) ==
    \E p \in DOMAIN g.adj :
        \E path \in SimplePaths(g, p[2], p[1]) :
            TotalWeight(g, path) + EdgeWeight(g, p[1], p[2]) < 0

(* path is a simple path of g from s to e, every step along an edge *)
IsSimplePath(g, s, e, path) ==
    /\ Len(path) >= 1
    /\ path[1] = s
    /\ path[Len(path)] = e
    /\ \A i, j \in 1..Len(path) : i # j => path[i] # path[j]
    /\ \A i \in 1..(Len(path) - 1) : <<path[i], path[i + 1]>> \in DOMAIN g.adj

(* the no-path sentinel (None, float('inf')) *)
NoPath == [tag |-> "return", path |-> <<>>, cost |-> Inf, err |-> ""]

(* ------------------------------ the claims ---------------------------- *)
SentinelAlgorithms ==
    {"dijkstra", "a_star", "bellman_ford", "spfa", "floyd_warshall", "johnson",
     "bidirectional"}

(* C3, as stated: on a graph without a negative-weight cycle, for an end    *)
(* that is not reachable from start, each of Dijkstra, A*, Bellman-Ford,    *)
(* SPFA, Floyd-Warshall, Johnson and Bidirectional Dijkstra returns exactly *)
(* (None, infinity) and raises nothing.                                     *)
C3_UnreachableGivesNoPath ==
    (/\ alg \in SentinelAlgorithms
     /\ ~HasNegativeCycle(graph)
     /\ ~Reachable(graph, start, end))
    => outcome = NoPath

(* C3, amended: the same for Dijkstra, A*, Bellman-Ford, SPFA,              *)
(* Floyd-Warshall and Johnson; Bidirectional Dijkstra returns (None,        *)
(* infinity) when, in addition, no edge weight is negative.                 *)
C3_UnreachableGivesNoPathAmended ==
    (/\ alg \in SentinelAlgorithms
     /\ ~HasNegativeCycle(graph)
     /\ ~Reachable(graph, start, end)
     /\ (alg = "bidirectional" => NonNegative(graph)))
    => outcome = NoPath

C3_Witness ==
    /\ alg = "bidirectional"
    /\ NonNegative(graph)
    /\ DOMAIN graph.adj # {}
    /\ ~Reachable(graph, start, end)
    /\ outcome = NoPath

(* C4: every value that Dijkstra, A*, Bellman-Ford, SPFA or DAG shortest    *)
(* path returns is a path with a finite cost or None with infinite cost.    *)
C4_PathXorInfinite ==
    (/\ alg \in {"dijkstra", "a_star", "bellman_ford", "spfa", "dag"}
     /\ outcome.tag = "return")
    => \/ outcome.path # <<>> /\ outcome.cost < Inf
       \/ outcome.path = <<>> /\ outcome.cost = Inf

(* C5: a path that Dijkstra, A*, Bellman-Ford or SPFA returns starts at     *)
(* start, ends at end, repeats no node, follows edges of the graph in their *)
(* direction, and the returned cost is the sum of the weights of its edges. *)
C5_ReturnedPathIsValid ==
    (/\ alg \in {"dijkstra", "a_star", "bellman_ford", "spfa"}
     /\ outcome.tag = "return"
     /\ outcome.path # <<>>)
    => /\ IsSimplePath(graph, start, end, outcome.path[1])
       /\ outcome.cost = TotalWeight(graph, outcome.path[1])

C5_Witness ==
    /\ alg = "bellman_ford"
    /\ outcome.tag = "return"
    /\ outcome.path # <<>>
    /\ Len(outcome.path[1]) = 3
    /\ ~NonNegative(graph)
    /\ \E p \in DOMAIN graph.adj : graph.adj[p] = <<>>

(* C6: on a graph, directed or undirected, with no negative weight and for  *)
(* an end reachable from start, Dijkstra, Bellman-Ford and SPFA return the  *)
(* same cost, the minimum total weight of a path from start to end.         *)
C6_SameMinimumCost ==
    (/\ alg \in {"dijkstra", "bellman_ford", "spfa"}
     /\ NonNegative(graph)
     /\ Reachable(graph, start, end))
    => /\ outcome.tag = "return"
       /\ outcome.cost = MinWeight(graph, start, end)

(* C7: on a graph with no negative weight and for an end reachable from     *)
(* start, A* returns the cost Dijkstra returns, whether the node            *)
(* identifiers are coordinate tuples or not.                                *)
C7_AStarCostIsDijkstraCost ==
    (/\ alg = "a_star"
     /\ NonNegative(graph)
     /\ Reachable(graph, start, end))
    => /\ outcome.tag = "return"
       /\ outcome.cost = dijkstra_shortest_path(graph, start, end).cost

(* C8: on a graph, directed or undirected, without a negative-weight cycle, *)
(* the distance map SPFA ends with is the distance map Bellman-Ford ends    *)
(* with, node for node.                                                     *)
C8_SPFADistancesAreBellmanFords ==
    (alg = "spfa" /\ ~HasNegativeCycle(graph))
    => distance = BellmanFinal(graph, start).distance

(* C9: on a directed graph with a negative weight but no negative-weight    *)
(* cycle and for an end reachable from start, Bellman-Ford and SPFA return  *)
(* a path of minimum total weight and that minimum as the cost; on the test *)
(* graph and the query (A, D) they return [A, B, C, D] and 3.               *)
C9_NegativeWeightsHandled ==
    (alg \in {"bellman_ford", "spfa"}) =>
      /\ (/\ graph.directed
          /\ ~NonNegative(graph)
          /\ ~HasNegativeCycle(graph)
          /\ Reachable(graph, start, end))
         => /\ outcome.tag = "return"
            /\ outcome.path # <<>>
            /\ IsSimplePath(graph, start, end, outcome.path[1])
            /\ TotalWeight(graph, outcome.path[1]) = MinWeight(graph, start, end)
            /\ outcome.cost = MinWeight(graph, start, end)
      /\ (graph = negative_weight_graph /\ start = 0 /\ end = 3)
         => outcome = Returned(<< <<0, 1, 2, 3>> >>, 3)

C9_Witness ==
    /\ alg = "spfa"
    /\ graph = negative_weight_graph
    /\ start = 0
    /\ end = 3
    /\ outcome.cost = 3

(* The precondition each algorithm puts on its graph. *)
Precondition(name, g) ==
    CASE name \in {"dijkstra", "a_star", "bidirectional"} -> NonNegative(g)
      [] name \in {"bellman_ford", "spfa", "floyd_warshall", "johnson"} ->
           ~HasNegativeCycle(g)
      [] name = "dag" ->
           g.directed /\ \A u \in Nodes(g) : \A v \in Nodes(g) :
               <<u, v>> \in DOMAIN g.adj => ~Reachable(g, v, u)

(* C10: for each of the eight algorithms, on a graph that satisfies its     *)
(* precondition, shortest_path(graph, s, s) returns ([s], 0).               *)
C10_StartIsEnd ==
    (alg # "" /\ start = end /\ Precondition(alg, graph))
    => outcome = Returned(<< <<start>> >>, 0)

(* what the i-th algorithm of the last call's mapping does on the query *)
Requested(i) == Invoke(requested[i], graph, start, end)

(* the batch holds one record per requested algorithm, in the mapping's order *)
BatchCoversRequested ==
    /\ Len(batch) = Len(requested)
    /\ \A i \in 1..Len(requested) : batch[i].algorithm = requested[i]

C2_SuccessIffPath ==
    \A i \in 1..Len(results) :
        LET out == Invoke(results[i].algorithm, graph, start, end)
        IN results[i].success <=> (out.tag = "return" /\ out.path # <<>>)

(* A closed walk of negative total weight through a node reachable from s. *)
NegativeCycleReachable(g, s) ==
    \E p \in DOMAIN g.adj :
        /\ Reachable(g, s, p[1])
        /\ \E path \in SimplePaths(g, p[2], p[1]) :
               TotalWeight(g, path) + EdgeWeight(g, p[1], p[2]) < 0

(* C11: Bellman-Ford fails with the negative-cycle error, returning no     *)
(* result, if and only if a negative-weight cycle is reachable from start; *)
(* on every other graph it raises nothing and returns.                     *)
C11_NegativeCycleErrorIff ==
    (alg = "bellman_ford") =>
       IF NegativeCycleReachable(graph, start)
       THEN outcome = Raised("Graph contains a negative-weight cycle")
       ELSE outcome.tag = "return"

(* A cycle of g: a directed cycle, or an undirected one of three or more *)
(* edges.                                                                *)
ContainsCycle(g) ==
    \E p \in DOMAIN g.adj :
        \E path \in SimplePaths(g, p[2], p[1]) : g.directed \/ Len(path) >= 3

(* C12: on a graph that contains a cycle, DAG shortest path fails with the *)
(* invalid-graph error, returns nothing and has made no distance map.      *)
C12_CyclicGraphIsRejected ==
    (alg = "dag" /\ ContainsCycle(graph))
    => /\ outcome = Raised("Graph is not a DAG")
       /\ distance = <<>>

C12_Witness ==
    /\ alg = "dag"
    /\ graph.directed
    /\ ContainsCycle(graph)
    /\ NonNegative(graph)
    /\ Reachable(graph, start, end)
    /\ outcome.tag = "raise"

(* C13: on a directed acyclic graph, whatever the signs of the weights and *)
(* whether the nodes are strings or integers, for an end reachable from    *)
(* start, DAG shortest path returns a path from start to end whose cost is *)
(* the minimum total weight of a path from start to end.                   *)
C13_DagReturnsMinimum ==
    (/\ alg = "dag"
     /\ graph.directed
     /\ ~ContainsCycle(graph)
     /\ Reachable(graph, start, end))
    => /\ outcome.tag = "return"
       /\ outcome.path # <<>>
       /\ IsSimplePath(graph, start, end, outcome.path[1])
       /\ outcome.cost = MinWeight(graph, start, end)

(* C14: a call of Yen's algorithm with k returns exactly min(k, number of  *)
(* simple paths from start to end) paths, each of them a simple path of    *)
(* the graph from start to end, no two of them equal, in order of          *)
(* non-decreasing cost; it raises nothing, whatever k and whether or not   *)
(* a path exists.                                                          *)
Min(a, b) == IF a < b THEN a ELSE b

YenResultIsRight ==
    /\ outcome.tag = "list"
    /\ Len(outcome.path) = Min(k, Cardinality(SimplePaths(graph, start, end)))
    /\ \A i \in 1..Len(outcome.path) :
           IsSimplePath(graph, start, end, outcome.path[i])
    /\ \A i, j \in 1..Len(outcome.path) :
           i < j => /\ outcome.path[i] # outcome.path[j]
                    /\ TotalWeight(graph, outcome.path[i])
                           <= TotalWeight(graph, outcome.path[j])

C14_YenReturnsKShortest == (alg = "yen") => YenResultIsRight

(* the algorithm of the i-th record of the batch found a path on the query *)
FoundPath(i) ==
    LET out == Invoke(batch[i].algorithm, graph, start, end)
    IN \/ out.tag = "return" /\ out.path # <<>>
       \/ out.tag = "list" /\ out.path # <<>>

(* C15: after a click that ended on a batch of at least one record, the    *)
(* best algorithm name is that of a record of least path cost among the    *)
(* records of the algorithms that found a path; when no algorithm of the   *)
(* batch found a path, the click reports that no path was found and        *)
(* leaves no best path and no best algorithm name.                         *)
C15_BestIsCheapestFound ==
    (shown \in {"best", "warning", "raised"} /\ batch # <<>>)
    => LET found == {i \in 1..Len(batch) : FoundPath(i)}
       IN IF found = {}
          THEN /\ shown = "warning"
               /\ best_algo_name = <<>>
               /\ best_path = <<>>
          ELSE /\ shown = "best"
               /\ \E i \in found :
                     /\ best_algo_name = <<batch[i].algorithm>>
                     /\ \A j \in found : batch[i].path_cost <= batch[j].path_cost

(* C16: after any sequence of run_benchmark calls on one instance, the     *)
(* batch the last call returned holds exactly one record per algorithm of  *)
(* that call's mapping, in the mapping's order, and no record of an        *)
(* earlier call.                                                           *)
C16_BatchIsOfItsCall ==
    (calls >= 1 /\ ret = "returned")
    => /\ Len(batch) = Len(requested)
       /\ \A i \in 1..Len(batch) : batch[i].algorithm = requested[i]

(* the record run_benchmark's except branch appends for name and message *)
IsFailureRecord(rec, name, message) ==
    /\ DOMAIN rec = {"algorithm", "execution_time", "memory_used_mb",
                     "path_length", "path_cost", "success", "error"}
    /\ rec.algorithm = name
    /\ rec.success = FALSE
    /\ rec.path_cost = Inf
    /\ rec.execution_time = Inf
    /\ rec.path_length = 0
    /\ rec.memory_used_mb = 0
    /\ rec.error = message

(* C17: the record of an algorithm that raises inside run_benchmark has    *)
(* success = false, path_cost = infinity, execution_time = infinity,       *)
(* path_length = 0, memory_used_mb = 0 and the exception's message as its  *)
(* error; the record of an algorithm that did not raise has no error       *)
(* field.                                                                  *)
C17_ErrorFieldIffRaised ==
    \A i \in 1..Len(results) :
        LET out == Invoke(results[i].algorithm, graph, start, end)
        IN IF out.tag = "raise"
           THEN IsFailureRecord(results[i], results[i].algorithm, out.err)
           ELSE "error" \notin DOMAIN results[i]

IsPrefix(a, b) == Len(a) <= Len(b) /\ SubSeq(b, 1, Len(a)) = a

(* C18: the result list is append-only: in every step of run_benchmark and *)
(* save_results on one instance the list before the step is a prefix of    *)
(* the list after it, so that no record in it is changed or removed, and   *)
(* a save_results step leaves the list as it was.                          *)
C18_ResultsAppendOnly ==
    [][/\ IsPrefix(results, results')
       /\ (saved' # saved => results' = results)]_vars

(* a save between two run_benchmark calls that each appended a record *)
C18_Witness ==
    /\ calls = 2
    /\ Len(results) = 2
    /\ Len(saved) = 1
    /\ saved[1].algorithm = results[1].algorithm
    /\ results[1].algorithm # results[2].algorithm

C20_RecordDescribesPath ==
    \A i \in 1..Len(results) :
        LET out == Invoke(results[i].algorithm, graph, start, end)
        IN (/\ results[i].algorithm \in AppAlgorithms
            /\ Reachable(graph, start, end)
            /\ out.tag \in {"return", "list"}
            /\ out.path # <<>>)
           => /\ results[i].success = TRUE
              /\ results[i].path_length = Len(out.path[1])
              /\ results[i].path_cost = IF out.tag = "list"
                                        THEN TotalWeight(graph, out.path[1])
                                        ELSE out.cost

(* C21: on a graph with a negative-weight cycle reachable from start, a    *)
(* call of SPFA never leaves its loop: at every test of "while queue" the  *)
(* queue holds a node, and the call has produced neither a result nor an   *)
(* error.                                                                  *)
C21_NegativeCycleNeverEnds ==
    (alg = "spfa" /\ NegativeCycleReachable(graph, start))
    => /\ locals.queue # <<>>
       /\ outcome = NotRun

(* the loop has gone round a directed negative cycle until a distance fell *)
(* below the weight of every simple path                                   *)
C21_Witness ==
    /\ alg = "spfa"
    /\ graph.directed
    /\ NegativeCycleReachable(graph, start)
    /\ SPFARunsForever(graph, locals)
    /\ locals.queue # <<>>

(* C23: at the start of every iteration of SPFA's main loop, in_queue[v]   *)
(* is true exactly for the nodes v in the work queue, and no node is in    *)
(* the work queue twice.                                                   *)
C23_InQueueIsTheQueue ==
    (alg = "spfa" /\ outcome = NotRun)
    => /\ \A v \in Nodes(graph) : locals.in_queue[v] <=> v \in Range(locals.queue)
       /\ Cardinality(Range(locals.queue)) = Len(locals.queue)

(* two nodes wait in the queue while a node that was in it has left it *)
C23_Witness ==
    /\ alg = "spfa"
    /\ outcome = NotRun
    /\ Len(locals.queue) = 2
    /\ \E v \in Nodes(graph) :
           /\ locals.distance[v] < Inf
           /\ ~locals.in_queue[v]
           /\ v \notin Range(locals.queue)

(* C22: on every graph with no negative-weight cycle reachable from start, *)
(* a call of SPFA that has been entered comes to an empty work queue and   *)
(* returns a result.                                                       *)
C22_QueueEmptiesAndReturns ==
    (alg = "spfa" /\ ~NegativeCycleReachable(graph, start))
    ~> (alg = "spfa" /\ locals.queue = <<>> /\ outcome.tag = "return")

(* the call has returned a path of three nodes over a negative edge, in a  *)
(* graph where a node is reached a second time at a lower distance         *)
C22_Witness ==
    /\ alg = "spfa"
    /\ ~NegativeCycleReachable(graph, start)
    /\ ~NonNegative(graph)
    /\ locals.queue = <<>>
    /\ outcome.tag = "return"
    /\ outcome.path # <<>>
    /\ Len(outcome.path[1]) = 3
    /\ Cardinality(SimplePaths(graph, start, end)) = 2

(* C24: in A*, at every pop of an open-set entry for a node that is not    *)
(* yet visited, the cost the entry carries is g_score of that node; so the *)
(* cost returned for end is g_score[end], and every entry pushed while a   *)
(* node is expanded carries the cost the node was popped with plus the     *)
(* weight of the edge.                                                     *)
C24_PoppedCostIsGScore ==
    (alg = "a_star")
    => /\ (outcome = NotRun /\ locals.open # {})
          => LET top == AStarPop(locals.open)
             IN top[3] \notin locals.visited
                => /\ top[3] \in DOMAIN locals.g_score
                   /\ top[2] = locals.g_score[top[3]]
       /\ (outcome.tag = "return" /\ outcome.path # <<>>)
          => outcome.cost = locals.g_score[end]
       /\ locals.popped # <<>>
          => LET top == locals.popped[1]
             IN \A e \in locals.open :
                   e[4] = Append(top[4], top[3])
                   => e[2] = top[2] + Weight(graph, top[3], e[3])

(* the entry about to be popped is for a node not yet visited, and the     *)
(* open set holds another entry for that node, pushed earlier with a       *)
(* greater cost                                                            *)
C24_Witness ==
    /\ alg = "a_star"
    /\ outcome = NotRun
    /\ locals.open # {}
    /\ LET top == AStarPop(locals.open)
       IN /\ top[3] \notin locals.visited
          /\ top[2] = locals.g_score[top[3]]
          /\ \E e \in locals.open : e[3] = top[3] /\ e[2] > top[2]

=============================================================================
